---- MODULE Spec2Model ----
(***************************************************************************)
(* Model of the Perry PII-masking servers:                                 *)
(*   document_masking_server.py, pan_masking_server.py,                    *)
(*   unified_pii_server.py (detector registry, masking, request handlers)  *)
(*   and ml_api_server.py / unified_pii_server.py (URL classifier).        *)
(*                                                                         *)
(* Specifications:                                                         *)
(*   SpecMask      one call of a masking function, box by box              *)
(*   SpecSeq       one worker serving masking requests one after another   *)
(*   SpecFaults    one worker, on a host where writing a result may fail   *)
(*   Spec          NThreads workers serving masking requests concurrently  *)
(*   SpecClassify  the URL classifier and its /analyze handler             *)
(***************************************************************************)
EXTENDS Integers, Sequences, FiniteSets, TLC

(***************************************************************************)
(* Bounds of the model.                                                    *)
(***************************************************************************)
PageW == 2
PageH == 1
Over == 2
MaxBoxes == 2
MaxPages == 2
NThreads == 2

VARIABLES
    \* ---- one masking call (SpecMask) ----
    mk,                \* the call's frame: implementation, position, locals
    ref,               \* reference values computed from the boxes seen so far
    \* ---- detector registry (module globals) ----
    server,            \* which of the three server programs is running
    aadhar_model,      \* unified: aadhar_model; document_masking_server: model
    pan_model,         \* unified: pan_model;    pan_masking_server: model
    constructions,     \* per document type: YOLO(path) objects built so far
    \* ---- masking request handlers, one frame per worker thread ----
    pc, req, images, masked_images, total_detections, idx, model, outcome,
    artifact, response,
    uploads,           \* UPLOAD_FOLDER: per path, the file saved there
    \* ---- URL classifier ----
    vectorizer, ml_model, analysis

maskVars == <<mk, ref>>
registryVars == <<server, aadhar_model, pan_model, constructions>>
handlerVars == <<pc, req, images, masked_images, total_detections, idx, model,
                 outcome, artifact, response, uploads>>
classifierVars == <<vectorizer, ml_model, analysis>>
vars == <<maskVars, registryVars, handlerVars, classifierVars>>

None == "None"

Max(a, b) == IF a >= b THEN a ELSE b
Min(a, b) == IF a <= b THEN a ELSE b

(***************************************************************************)
(* Pages.  A page is a raster of PageW x PageH pixels.  A pixel's value is *)
(* the number of nested blurs it went through: 0 is the original value,    *)
(* and a blur of a region gives every pixel of it a value derived from the *)
(* whole region (1 + the deepest pixel of the region).                     *)
(***************************************************************************)
PixelsOf(w, h) == (0 .. (w - 1)) \X (0 .. (h - 1))

NewPage(id) ==
    [id |-> id, w |-> PageW, h |-> PageH,
     px |-> [p \in PixelsOf(PageW, PageH) |-> 0]]

(***************************************************************************)
(* Detector boxes.  The detector returns float coordinates; they are kept  *)
(* here in half pixels (3 is 1.5 px).  A box is <<x1, y1, x2, y2>>.        *)
(***************************************************************************)
HalfX == (-2 * Over) .. (2 * (PageW + Over))
HalfY == (-2 * Over) .. (2 * (PageH + Over))

\* boxes that vary along one axis and span the page along the other
Boxes ==
    {<<x1, 0, x2, 2 * PageH>> : x1 \in HalfX, x2 \in HalfX}
    \cup {<<0, y1, 2 * PageW, y2>> : y1 \in HalfY, y2 \in HalfY}

\* int(c) of a float: truncation toward zero
ToInt(c) == IF c >= 0 THEN c \div 2 ELSE -((-c) \div 2)

\* x1, y1, x2, y2 = map(int, box)
IntBox(b) ==
    [x1 |-> ToInt(b[1]), y1 |-> ToInt(b[2]), x2 |-> ToInt(b[3]), y2 |-> ToInt(b[4])]

NoRect == [x1 |-> 0, y1 |-> 0, x2 |-> 0, y2 |-> 0]

\* numpy's normalisation of one bound of a slice a[i:j] over an axis of length n
SliceIndex(i, n) == IF i < 0 THEN Max(i + n, 0) ELSE Min(i, n)

\* the pixels of img[y1:y2, x1:x2]
Roi(img, r) ==
    {p \in PixelsOf(img.w, img.h) :
        /\ SliceIndex(r.x1, img.w) <= p[1] /\ p[1] < SliceIndex(r.x2, img.w)
        /\ SliceIndex(r.y1, img.h) <= p[2] /\ p[2] < SliceIndex(r.y2, img.h)}

MaxDepth(img, S) == CHOOSE d \in {img.px[p] : p \in S} : \A q \in S : img.px[q] <= d

\* masked_roi = cv2.GaussianBlur(roi, (51, 51), 30); img[y1:y2, x1:x2] = masked_roi
\* (roi is not empty: cv2 raises on an empty source)
GaussianBlur(img, roi) ==
    [img EXCEPT !.px = [p \in DOMAIN img.px |->
        IF p \in roi THEN 1 + MaxDepth(img, roi) ELSE img.px[p]]]

\* x1 = max(0, x1); y1 = max(0, y1); x2 = min(img.shape[1], x2); y2 = min(img.shape[0], y2)
ClipBox(img, r) ==
    [x1 |-> Max(0, r.x1), y1 |-> Max(0, r.y1),
     x2 |-> Min(img.w, r.x2), y2 |-> Min(img.h, r.y2)]

(***************************************************************************)
(* One iteration of a masking loop.  st is the loop's state:               *)
(*   img     the working copy (masked_img / processed_img)                 *)
(*   count   detection_count                                               *)
(*   rect    the x1, y1, x2, y2 last used to slice the working copy        *)
(*   sliced  the working copy has been sliced with rect                    *)
(*   raised  an exception left the loop                                    *)
(***************************************************************************)
ClippedBoxStep(img, st, b) ==
    LET r == ClipBox(img, IntBox(b))
        roi == Roi(st.img, r)
    IN  IF r.x2 > r.x1 /\ r.y2 > r.y1
        THEN IF roi # {}
             THEN [st EXCEPT !.img = GaussianBlur(st.img, roi),
                             !.count = st.count + 1,
                             !.rect = r, !.sliced = TRUE]
             ELSE [st EXCEPT !.rect = r, !.sliced = TRUE]
        ELSE st

\* a slip: the blur is computed from the input image, not from the working copy
UnifiedBoxStepFromInput(img, st, b) ==
    LET r == ClipBox(img, IntBox(b))
        roi == Roi(st.img, r)
    IN  IF r.x2 > r.x1 /\ r.y2 > r.y1 /\ roi # {}
        THEN [st EXCEPT !.img = [st.img EXCEPT !.px = [p \in DOMAIN st.img.px |->
                                    IF p \in roi THEN 1 + MaxDepth(img, roi)
                                    ELSE st.img.px[p]]],
                        !.count = st.count + 1,
                        !.rect = r, !.sliced = TRUE]
        ELSE st

\* unified_pii_server.mask_pii_in_image, body of the loop over boxes
UnifiedBoxStep(img, st, b) == ClippedBoxStep(img, st, b)

\* pan_masking_server.mask_pan_in_image, body of the loop over boxes
PanBoxStep(img, st, b) == ClippedBoxStep(img, st, b)

\* document_masking_server.mask_pii_in_image, body of the loop over boxes:
\* no clipping, and GaussianBlur raises on an empty roi
DmsBoxStep(img, st, b) ==
    LET r == IntBox(b)
        roi == Roi(st.img, r)
    IN  IF roi = {}
        THEN [st EXCEPT !.rect = r, !.sliced = TRUE, !.raised = TRUE]
        ELSE [st EXCEPT !.img = GaussianBlur(st.img, roi), !.rect = r, !.sliced = TRUE]

Impls == {"document_masking_server", "pan_masking_server", "unified_pii_server"}

BoxStep(impl, img, st, b) ==
    CASE impl = "document_masking_server" -> DmsBoxStep(img, st, b)
      [] impl = "pan_masking_server" -> PanBoxStep(img, st, b)
      [] OTHER -> UnifiedBoxStep(img, st, b)

\* a slip: the count starts from len(results), one Results object per image
LoopStartCountsResults(impl, img, n) ==
    [img |-> img, count |-> 1,
     rect |-> NoRect, sliced |-> FALSE, raised |-> FALSE]

\* the loop's state before the first box; n is len(boxes)
\* (document_masking_server sets detection_count = len(boxes) before the loop)
LoopStart(impl, img, n) ==
    [img |-> img,
     count |-> IF impl = "document_masking_server" THEN n ELSE 0,
     rect |-> NoRect, sliced |-> FALSE, raised |-> FALSE]

\* what the masking function returns from a loop state:
\* (working copy, count), or (img, 0) from the except clause
MaskResult(img, st) ==
    IF st.raised THEN [img |-> img, count |-> 0]
    ELSE [img |-> st.img, count |-> st.count]

(***************************************************************************)
(* Reference values, computed from the boxes alone: the region a box       *)
(* covers after int() and clipping to the page, and whether it survives.   *)
(***************************************************************************)
ClipRegion(img, b) ==
    LET r == ClipBox(img, IntBox(b))
    IN  {p \in PixelsOf(img.w, img.h) :
            r.x1 <= p[1] /\ p[1] < r.x2 /\ r.y1 <= p[2] /\ p[2] < r.y2}

Survives(img, b) ==
    LET r == ClipBox(img, IntBox(b)) IN r.x2 > r.x1 /\ r.y2 > r.y1

\* a rectangle of positive area that lies on the page
InPage(img, r) ==
    /\ 0 <= r.x1 /\ r.x1 < r.x2 /\ r.x2 <= img.w
    /\ 0 <= r.y1 /\ r.y1 < r.y2 /\ r.y2 <= img.h

\* the pixels of a rectangle that lies on the page
RectPixels(img, r) ==
    {p \in PixelsOf(img.w, img.h) :
        r.x1 <= p[1] /\ p[1] < r.x2 /\ r.y1 <= p[2] /\ p[2] < r.y2}

\* rectangle b lies inside rectangle a
Inside(b, a) == a.x1 <= b.x1 /\ b.x2 <= a.x2 /\ a.y1 <= b.y1 /\ b.y2 <= a.y2

\* what is kept of a box of the detector: its rectangle after int() when that
\* lies on the page, NoRect otherwise
Seen(img, b) == IF InPage(img, IntBox(b)) THEN IntBox(b) ELSE NoRect

(***************************************************************************)
(* SpecMask: one call of a masking function on one page, box by box.       *)
(***************************************************************************)
\* the model_type arguments a call may carry: the two supported types and
\* another string (only unified_pii_server's function has the parameter)
ModelTypes == {"aadhar", "pan", "passport"}

CallTypes(impl) ==
    CASE impl = "document_masking_server" -> {"aadhar"}
      [] impl = "pan_masking_server" -> {"pan"}
      [] OTHER -> ModelTypes

\* the load function the masking function calls:
\* if model_type == 'aadhar': load_aadhar_model() else: load_pan_model()
ResolveLoader(impl, model_type) ==
    CASE impl = "document_masking_server" -> "aadhar"
      [] impl = "pan_masking_server" -> "pan"
      [] OTHER -> IF model_type = "aadhar" THEN "aadhar" ELSE "pan"

MaskIdle ==
    [impl |-> None, pc |-> "off", img |-> NewPage(1), n |-> 0, i |-> 0,
     model_type |-> None, loader |-> None, raised |-> FALSE,
     st |-> LoopStart(None, NewPage(1), 0),
     result |-> [img |-> NewPage(1), count |-> 0]]

RefIdle == [clip |-> {}, count |-> 0, rects |-> <<>>]

\* entry of the function up to the loop: model = load_model(); results =
\* model(img, save=False, conf=0.5); the working copy; the detector returned n boxes
MaskDetect ==
    /\ mk.pc = "call"
    /\ \E n \in 0 .. MaxBoxes :
        mk' = [mk EXCEPT !.pc = "loop", !.n = n, !.i = 0,
                         !.loader = ResolveLoader(mk.impl, mk.model_type),
                         !.st = LoopStart(mk.impl, mk.img, n)]
    /\ UNCHANGED <<ref, registryVars, handlerVars, classifierVars>>

\* load_model() or model(img) raised: the except clause returns (img, 0)
MaskDetectRaises ==
    /\ mk.pc = "call"
    /\ mk' = [mk EXCEPT !.pc = "ret", !.raised = TRUE,
                     !.loader = ResolveLoader(mk.impl, mk.model_type),
                     !.result = [img |-> mk.img, count |-> 0]]
    /\ UNCHANGED <<ref, registryVars, handlerVars, classifierVars>>

\* one iteration of the loop over boxes, on the next box of the detector
MaskBox ==
    /\ mk.pc = "loop"
    /\ mk.i < mk.n
    /\ \E b \in Boxes :
        LET st2 == BoxStep(mk.impl, mk.img, mk.st, b) IN
        /\ mk' = [mk EXCEPT !.i = mk.i + 1, !.st = st2,
                            !.pc = IF st2.raised THEN "ret" ELSE "loop",
                            !.raised = st2.raised,
                            !.result = IF st2.raised THEN MaskResult(mk.img, st2)
                                       ELSE mk.result]
        /\ ref' = [clip |-> ref.clip \cup ClipRegion(mk.img, b),
                   count |-> ref.count + (IF Survives(mk.img, b) THEN 1 ELSE 0),
                   rects |-> Append(ref.rects, Seen(mk.img, b))]
    /\ UNCHANGED <<registryVars, handlerVars, classifierVars>>

\* the loop is over: return (working copy, detection_count)
MaskReturn ==
    /\ mk.pc = "loop"
    /\ mk.i = mk.n
    /\ mk' = [mk EXCEPT !.pc = "ret", !.result = MaskResult(mk.img, mk.st)]
    /\ UNCHANGED <<ref, registryVars, handlerVars, classifierVars>>

(***************************************************************************)
(* The loop of the masking function, on the detector's boxes in order.     *)
(***************************************************************************)
RECURSIVE MaskLoop(_, _, _, _)
MaskLoop(impl, img, st, boxes) ==
    IF boxes = <<>> \/ st.raised THEN st
    ELSE MaskLoop(impl, img, BoxStep(impl, img, st, Head(boxes)), Tail(boxes))

\* reference: the boxes with a positive area after int() and clipping
ExpectedCount(img, boxes) ==
    Cardinality({i \in 1 .. Len(boxes) : Survives(img, boxes[i])})

(***************************************************************************)
(* Detector registry: the module globals and the load functions.           *)
(***************************************************************************)
Threads == 1 .. NThreads
DocTypes == {"aadhar", "pan"}

\* the document types a server program masks
\* (unified: /mask-document is aadhar, /mask-pan is pan)
TypesOf(srv) ==
    CASE srv = "document_masking_server" -> {"aadhar"}
      [] srv = "pan_masking_server" -> {"pan"}
      [] OTHER -> DocTypes

\* a slip: the two branches of the type test are swapped
GetModelSwapped(type) == IF type = "aadhar" THEN pan_model ELSE aadhar_model

\* the global a load function reads
GetModel(type) == IF type = "aadhar" THEN aadhar_model ELSE pan_model

\* the value None of a model global
Unset == [type |-> None, serial |-> 0]

\* the object YOLO(path) returns: a fresh one at every execution
NewHandle(type) == [type |-> type, serial |-> constructions[type] + 1]

(***************************************************************************)
(* Requests.  upload: what the multipart form carries; pages: what the     *)
(* saved file decodes to (-1: it does not decode).                         *)
(***************************************************************************)
Rejected == {"nofile", "noname", "badext"}

Requests ==
    {r \in [doctype : DocTypes,
            upload : Rejected \cup {"pdf", "image"},
            pages : -1 .. MaxPages] :
        /\ r.upload \in Rejected => r.pages = 0
        /\ r.upload = "image" => r.pages \in {-1, 1}}

\* requests that reach the masking loop
PagedRequests == {r \in Requests : r.upload \in {"pdf", "image"} /\ r.pages >= 0}

\* detector outputs offered to the handlers: boxes inside the page, beyond
\* it, and of zero width after int()
Whole == <<0, 0, 2 * PageW, 2 * PageH>>
LeftColumn == <<0, 0, 2, 2 * PageH>>
Beyond == <<-2, 0, 2 * (PageW + 1), 2 * PageH>>
Thin == <<2, 0, 3, 2 * PageH>>
HandlerBoxes == {Whole, LeftColumn, Beyond, Thin}

RECURSIVE SeqsUpTo(_, _)
SeqsUpTo(S, n) ==
    IF n = 0 THEN {<<>>}
    ELSE LET shorter == SeqsUpTo(S, n - 1)
         IN  shorter \cup {Append(q, x) : q \in {z \in shorter : Len(z) = n - 1}, x \in S}

DetectorOutputs == SeqsUpTo(HandlerBoxes, MaxBoxes)

NoResponse == [status |-> 0, success |-> FALSE, detections |-> 0, error |-> None]
NoFile == <<>>

\* the uploads that pass the checks, by what allowed_file finds
Accepted == {"pdf", "image"}

\* UPLOAD_FOLDER.  Every upload carries the same sanitized base name, so the
\* path input_path depends on the extension alone: name.pdf, name.jpg, or
\* the name of an upload with an extension that is not allowed.
\* A file there is the content some request uploaded: whose it is and the
\* pages it decodes to.
Paths == Accepted \cup {"badext"}
NoUpload == [owner |-> 0, pages |-> 0]
NoUploads == [p \in Paths |-> NoUpload]

\* the answer of the outer except clause of a handler
ProcessingFailed ==
    [status |-> 500, success |-> FALSE, detections |-> 0, error |-> "Processing failed"]

\* a slip: the last page is taken as the base of the PDF
ImagesToPdfLastAsBase(imgs) ==
    IF imgs # <<>> THEN <<imgs[Len(imgs)]>> \o SubSeq(imgs, 1, Len(imgs) - 1) ELSE NoFile

\* images_to_pdf: first page as base, the others appended; nothing is written
\* for an empty list
ImagesToPdf(imgs) ==
    IF imgs # <<>> THEN <<imgs[1]>> \o SubSeq(imgs, 2, Len(imgs)) ELSE NoFile

\* masked_images.append(masked_img); total_detections += detections; next page
Advance(t, res, tag, exp) ==
    /\ masked_images' = [masked_images EXCEPT ![t] = Append(@, res.img)]
    /\ total_detections' = [total_detections EXCEPT ![t] = @ + res.count]
    /\ outcome' = [outcome EXCEPT ![t] =
                      [@ EXCEPT !.tags = Append(@, tag), !.expected = @ + exp]]
    /\ idx' = [idx EXCEPT ![t] = @ + 1]
    /\ pc' = [pc EXCEPT ![t] = IF idx[t] + 1 < Len(images[t]) THEN "load" ELSE "output"]

(***************************************************************************)
(* The request handlers mask_document / mask_aadhar_document /             *)
(* mask_pan_document, worker thread t.                                     *)
(***************************************************************************)
\* a slip: the upload is saved before its extension is checked
ReceiveSavesFirst(t, reqs) ==
    /\ pc[t] = "idle"
    /\ \E r \in reqs :
        /\ r.doctype \in TypesOf(server)
        /\ req' = [req EXCEPT ![t] = r]
        /\ uploads' = IF r.upload \in Paths
                       THEN [uploads EXCEPT ![r.upload] = [owner |-> t, pages |-> r.pages]]
                       ELSE uploads
        /\ IF r.upload \in Rejected
           THEN /\ response' = [response EXCEPT ![t] =
                        [status |-> 400, success |-> FALSE, detections |-> 0,
                         error |-> r.upload]]
                /\ pc' = [pc EXCEPT ![t] = "responded"]
           ELSE /\ pc' = [pc EXCEPT ![t] = "extract"]
                /\ UNCHANGED response
    /\ UNCHANGED <<images, masked_images, total_detections, idx, model, outcome,
                   artifact, maskVars, registryVars, classifierVars>>

\* the checks on the upload; file.save(input_path)
Receive(t, reqs) ==
    /\ pc[t] = "idle"
    /\ \E r \in reqs :
        /\ r.doctype \in TypesOf(server)
        /\ req' = [req EXCEPT ![t] = r]
        /\ IF r.upload \in Rejected
           THEN /\ response' = [response EXCEPT ![t] =
                        [status |-> 400, success |-> FALSE, detections |-> 0,
                         error |-> r.upload]]
                /\ pc' = [pc EXCEPT ![t] = "responded"]
                /\ UNCHANGED uploads
           ELSE /\ uploads' = [uploads EXCEPT ![r.upload] =
                        [owner |-> t, pages |-> r.pages]]
                /\ pc' = [pc EXCEPT ![t] = "extract"]
                /\ UNCHANGED response
    /\ UNCHANGED <<images, masked_images, total_detections, idx, model, outcome,
                   artifact, maskVars, registryVars, classifierVars>>

\* process_pdf_to_images(input_path) / cv2.imread(input_path), on the file
\* that is at input_path now: fitz.open raises on a missing or corrupt file,
\* cv2.imread returns None
Extract(t) ==
    /\ pc[t] = "extract"
    /\ LET f == uploads[req[t].upload] IN
        IF f = NoUpload \/ f.pages < 0
        THEN /\ response' = [response EXCEPT ![t] =
                     IF req[t].upload = "pdf" THEN ProcessingFailed
                     ELSE [status |-> 400, success |-> FALSE, detections |-> 0,
                           error |-> "Could not read image file"]]
             /\ outcome' = [outcome EXCEPT ![t].raised = (req[t].upload = "pdf")]
             /\ pc' = [pc EXCEPT ![t] = "responded"]
             /\ UNCHANGED images
        ELSE /\ images' = [images EXCEPT ![t] = [i \in 1 .. f.pages |-> NewPage(i)]]
             /\ outcome' = [outcome EXCEPT ![t].read = f.owner]
             /\ pc' = [pc EXCEPT ![t] = IF f.pages = 0 THEN "output" ELSE "load"]
             /\ UNCHANGED response
    /\ UNCHANGED <<req, masked_images, total_detections, idx, model,
                   artifact, uploads, maskVars, registryVars, classifierVars>>

\* load_model: `if model is None` found the handle set: return it
LoadCached(t) ==
    /\ pc[t] = "load"
    /\ GetModel(req[t].doctype) # Unset
    /\ model' = [model EXCEPT ![t] = GetModel(req[t].doctype)]
    /\ pc' = [pc EXCEPT ![t] = "infer"]
    /\ UNCHANGED <<req, images, masked_images, total_detections, idx, outcome,
                   artifact, response, uploads, maskVars, registryVars, classifierVars>>

\* a slip: load_model without the `if model is None` test
LoadAlways(t) ==
    /\ pc[t] = "load"
    /\ pc' = [pc EXCEPT ![t] = "construct"]
    /\ UNCHANGED <<req, images, masked_images, total_detections, idx, model, outcome,
                   artifact, response, uploads, maskVars, registryVars, classifierVars>>

\* load_model: `if model is None` found the handle unset: enter the try block
LoadUnset(t) ==
    /\ pc[t] = "load"
    /\ GetModel(req[t].doctype) = Unset
    /\ pc' = [pc EXCEPT ![t] = "construct"]
    /\ UNCHANGED <<req, images, masked_images, total_detections, idx, model, outcome,
                   artifact, response, uploads, maskVars, registryVars, classifierVars>>

\* load_model: model = YOLO(MODEL_PATH) succeeded; return model
Construct(t) ==
    /\ pc[t] = "construct"
    /\ LET h == NewHandle(req[t].doctype) IN
        /\ IF req[t].doctype = "aadhar"
           THEN aadhar_model' = h /\ UNCHANGED pan_model
           ELSE pan_model' = h /\ UNCHANGED aadhar_model
        /\ constructions' = [constructions EXCEPT ![req[t].doctype] = @ + 1]
        /\ model' = [model EXCEPT ![t] = h]
    /\ pc' = [pc EXCEPT ![t] = "infer"]
    /\ UNCHANGED <<server, req, images, masked_images, total_detections, idx, outcome,
                   artifact, response, uploads, maskVars, classifierVars>>

\* a slip: the masking function without its try/except: the load failure
\* reaches the handler, which answers 500
ConstructRaisesEscapes(t) ==
    /\ pc[t] = "construct"
    /\ outcome' = [outcome EXCEPT ![t].tags = Append(@, "load_failed"),
                                  ![t].raised = TRUE]
    /\ response' = [response EXCEPT ![t] = ProcessingFailed]
    /\ pc' = [pc EXCEPT ![t] = "responded"]
    /\ UNCHANGED <<req, images, masked_images, total_detections, idx, model, artifact,
                   uploads, maskVars, registryVars, classifierVars>>

\* a slip: the except clause of load_model stores a placeholder in the global
ConstructRaisesLeavesValue(t) ==
    /\ pc[t] = "construct"
    /\ LET h == [type |-> req[t].doctype, serial |-> 0] IN
        IF req[t].doctype = "aadhar"
        THEN aadhar_model' = h /\ UNCHANGED pan_model
        ELSE pan_model' = h /\ UNCHANGED aadhar_model
    /\ Advance(t, [img |-> images[t][idx[t] + 1], count |-> 0], "load_failed", 0)
    /\ UNCHANGED <<server, constructions, req, images, model, artifact, response,
                   uploads, maskVars, classifierVars>>

\* load_model: YOLO(MODEL_PATH) raised, load_model re-raises, and the except
\* clause of the masking function returns (img, 0)
ConstructRaises(t) ==
    /\ pc[t] = "construct"
    /\ Advance(t, [img |-> images[t][idx[t] + 1], count |-> 0], "load_failed", 0)
    /\ UNCHANGED <<req, images, model, artifact, response, uploads,
                   maskVars, registryVars, classifierVars>>

\* results = model(img, save=False, conf=0.5) and the masking loop
InferAndMask(t, outs) ==
    /\ pc[t] = "infer"
    /\ \E boxes \in outs :
        LET img == images[t][idx[t] + 1]
            st == MaskLoop(server, img, LoopStart(server, img, Len(boxes)), boxes)
        IN  Advance(t, MaskResult(img, st),
                    IF st.raised THEN "mask_raised" ELSE "masked",
                    ExpectedCount(img, boxes))
    /\ UNCHANGED <<req, images, model, artifact, response, uploads,
                   maskVars, registryVars, classifierVars>>

\* model(img, ...) raised: the except clause returns (img, 0)
InferRaises(t) ==
    /\ pc[t] = "infer"
    /\ Advance(t, [img |-> images[t][idx[t] + 1], count |-> 0], "infer_failed", 0)
    /\ UNCHANGED <<req, images, model, artifact, response, uploads,
                   maskVars, registryVars, classifierVars>>

\* images_to_pdf(masked_images, output_path) / cv2.imwrite(output_path, masked_img);
\* os.remove(input_path), which raises when no file is there; the success response
Output(t) ==
    /\ pc[t] = "output"
    /\ artifact' = [artifact EXCEPT ![t] =
            IF req[t].upload = "pdf" THEN ImagesToPdf(masked_images[t])
            ELSE <<masked_images[t][1]>>]
    /\ IF uploads[req[t].upload] = NoUpload
       THEN /\ response' = [response EXCEPT ![t] = ProcessingFailed]
            /\ outcome' = [outcome EXCEPT ![t].raised = TRUE]
            /\ UNCHANGED uploads
       ELSE /\ uploads' = [uploads EXCEPT ![req[t].upload] = NoUpload]
            /\ response' = [response EXCEPT ![t] =
                    [status |-> 200, success |-> TRUE,
                     detections |-> total_detections[t], error |-> None]]
            /\ UNCHANGED outcome
    /\ pc' = [pc EXCEPT ![t] = "responded"]
    /\ UNCHANGED <<req, images, masked_images, total_detections, idx, model,
                   maskVars, registryVars, classifierVars>>

\* a slip: the failure to write the result is swallowed and the handler goes
\* on to its success response
OutputRaisesSwallowed(t) ==
    /\ pc[t] = "output"
    /\ outcome' = [outcome EXCEPT ![t].raised = TRUE]
    /\ response' = [response EXCEPT ![t] =
            [status |-> 200, success |-> TRUE,
             detections |-> total_detections[t], error |-> None]]
    /\ pc' = [pc EXCEPT ![t] = "responded"]
    /\ UNCHANGED <<req, images, masked_images, total_detections, idx, model,
                   artifact, uploads, maskVars, registryVars, classifierVars>>

\* images_to_pdf / cv2.imwrite raised (the results folder cannot be written):
\* the outer except clause answers 500; os.remove(input_path) is not reached
OutputRaises(t) ==
    /\ pc[t] = "output"
    /\ outcome' = [outcome EXCEPT ![t].raised = TRUE]
    /\ response' = [response EXCEPT ![t] = ProcessingFailed]
    /\ pc' = [pc EXCEPT ![t] = "responded"]
    /\ UNCHANGED <<req, images, masked_images, total_detections, idx, model,
                   artifact, uploads, maskVars, registryVars, classifierVars>>

\* what happened in a request (kept for the properties): per page how the
\* masking function ended, the reference count, whose upload was read, and
\* whether an exception reached the handler's except clause
NoOutcome == [tags |-> <<>>, expected |-> 0, read |-> 0, raised |-> FALSE]
NoRequest == [doctype |-> None, upload |-> None, pages |-> 0]

\* the handler returned: its locals are gone
Return(t) ==
    /\ pc[t] = "responded"
    /\ pc' = [pc EXCEPT ![t] = "idle"]
    /\ req' = [req EXCEPT ![t] = NoRequest]
    /\ images' = [images EXCEPT ![t] = <<>>]
    /\ masked_images' = [masked_images EXCEPT ![t] = <<>>]
    /\ total_detections' = [total_detections EXCEPT ![t] = 0]
    /\ idx' = [idx EXCEPT ![t] = 0]
    /\ model' = [model EXCEPT ![t] = Unset]
    /\ outcome' = [outcome EXCEPT ![t] = NoOutcome]
    /\ artifact' = [artifact EXCEPT ![t] = NoFile]
    /\ response' = [response EXCEPT ![t] = NoResponse]
    /\ UNCHANGED <<uploads, maskVars, registryVars, classifierVars>>

HandlersIdle ==
    /\ pc = [t \in Threads |-> "idle"]
    /\ req = [t \in Threads |-> NoRequest]
    /\ images = [t \in Threads |-> <<>>]
    /\ masked_images = [t \in Threads |-> <<>>]
    /\ total_detections = [t \in Threads |-> 0]
    /\ idx = [t \in Threads |-> 0]
    /\ model = [t \in Threads |-> Unset]
    /\ outcome = [t \in Threads |-> NoOutcome]
    /\ artifact = [t \in Threads |-> NoFile]
    /\ response = [t \in Threads |-> NoResponse]
    /\ uploads = NoUploads

RegistryUnset ==
    /\ aadhar_model = Unset
    /\ pan_model = Unset
    /\ constructions = [d \in DocTypes |-> 0]

ClassifierOff ==
    /\ vectorizer = None
    /\ ml_model = None
    /\ analysis = [pc |-> "boot"]

MaskOff == mk = MaskIdle /\ ref = RefIdle

(***************************************************************************)
(* URL classifier: classify_url and the /analyze handler.                  *)
(* A label or a needle is a sequence of characters; a confidence is in     *)
(* percent.                                                                *)
(***************************************************************************)
Lower(c) ==
    CASE c = "G" -> "g" [] c = "O" -> "o" [] c = "V" -> "v" [] c = "N" -> "n"
      [] OTHER -> c

\* str(prediction).lower()
LowerStr(s) == [i \in 1 .. Len(s) |-> Lower(s[i])]

\* needle in s
Contains(needle, s) ==
    \E i \in 1 .. (Len(s) - Len(needle) + 1) :
        SubSeq(s, i, i + Len(needle) - 1) = needle

Needles ==
    {<<"g", "o", "v", "e", "r", "n", "m", "e", "n", "t">>,
     <<"a", "u", "t", "h", "o", "r", "i", "z", "e", "d">>,
     <<"g", "o", "v">>,
     <<"l", "e", "g", "i", "t", "i", "m", "a", "t", "e">>}

\* labels a trained model may predict
Labels ==
    {<<"G", "O", "V">>,
     <<"n", "o", "n", "-", "g", "o", "v">>,
     <<"o", "t", "h", "e", "r">>,
     <<"l", "e", "g", "i", "t", "i", "m", "a", "t", "e">>,
     <<"1">>}

\* what the loaded model does on one call: transform/predict may raise,
\* predict_proba may be missing ("absent"), raise ("raises") or give max(proba)
ModelRuns ==
    [raises : BOOLEAN, prediction : Labels, proba : {"absent", "raises", "0.6", "1.0"}]

Loaded == "loaded"

\* a slip: the unset-model default reports the url as safe
ClassifyUrlFailOpen(url, run) ==
    [isGovernment |-> FALSE, confidence |-> 0, isUnsafe |-> FALSE,
     reason |-> "Model not loaded"]

\* a slip: a low confidence also marks the url unsafe
ClassifyUrlUnsafeByConfidence(url, run) ==
    IF ml_model = None \/ vectorizer = None
    THEN [isGovernment |-> FALSE, confidence |-> 0, isUnsafe |-> TRUE,
          reason |-> "Model not loaded"]
    ELSE IF run.raises
    THEN [isGovernment |-> FALSE, confidence |-> 0, isUnsafe |-> TRUE,
          reason |-> "Error"]
    ELSE LET pred_str == LowerStr(run.prediction)
             is_government == \E n \in Needles : Contains(n, pred_str)
         IN  [isGovernment |-> is_government,
              confidence |-> CASE run.proba = "0.6" -> 60 [] run.proba = "1.0" -> 100
                                [] OTHER -> 80,
              isUnsafe |-> ~is_government \/ run.proba = "0.6",
              reason |-> IF is_government THEN "SAFE" ELSE "UNSAFE",
              classification |-> run.prediction]

\* classify_url(url)
ClassifyUrl(url, run) ==
    IF ml_model = None \/ vectorizer = None
    THEN [isGovernment |-> FALSE, confidence |-> 0, isUnsafe |-> TRUE,
          reason |-> "Model not loaded"]
    ELSE IF run.raises
    THEN [isGovernment |-> FALSE, confidence |-> 0, isUnsafe |-> TRUE,
          reason |-> "Error"]
    ELSE LET pred_str == LowerStr(run.prediction)
             is_government == \E n \in Needles : Contains(n, pred_str)
         IN  [isGovernment |-> is_government,
              confidence |-> CASE run.proba = "0.6" -> 60 [] run.proba = "1.0" -> 100
                                [] OTHER -> 80,
              isUnsafe |-> ~is_government,
              reason |-> IF is_government THEN "SAFE" ELSE "UNSAFE",
              classification |-> run.prediction]

\* request bodies of /analyze: no JSON, or a JSON object with url/domain keys
\* (a value is a sequence <<scheme, rest>> or <<rest>>, or the empty string <<>>)
UrlValues == {<<>>, <<"http://", "a.gov.in">>, <<"https://", "b.com">>, <<"b.com">>}
Bodies ==
    {[json |-> FALSE, url |-> <<>>, domain |-> <<>>]}
    \cup [json : {TRUE}, url : UrlValues, domain : {<<>>, <<"a.gov.in">>}]

\* data.get('url') or data.get('domain', '')
RequestedUrl(body) == IF body.url # <<>> THEN body.url ELSE body.domain

\* if not url.startswith(('http://', 'https://')): url = f"https://{url}"
WithScheme(url) ==
    IF url[1] \in {"http://", "https://"} THEN url ELSE <<"https://">> \o url

NotCalled == [reason |-> "classify_url was not called"]

ServerError ==
    [isGovernment |-> FALSE, confidence |-> 0, isUnsafe |-> TRUE,
     reason |-> "Server error"]

\* analyze(): the response of the handler to one request
AnalyzeResponse(body, run) ==
    IF ~body.json THEN [status |-> 500, body |-> ServerError]
    ELSE IF RequestedUrl(body) = <<>> THEN [status |-> 400, body |-> [error |-> "URL required"]]
    ELSE LET result == ClassifyUrl(WithScheme(RequestedUrl(body)), run)
         IN  IF "classification" \in DOMAIN result
             THEN [status |-> 200, body |-> result]
             ELSE [status |-> 500, body |-> ServerError]

\* load_ml_models / load_models at start-up: the vectorizer is loaded first,
\* then the model; a failure leaves what was already assigned
LoadModels ==
    /\ analysis.pc = "boot"
    /\ \E got \in {"none", "vectorizer", "both"} :
        /\ vectorizer' = IF got = "none" THEN None ELSE Loaded
        /\ ml_model' = IF got = "both" THEN Loaded ELSE None
    /\ analysis' = [pc |-> "serving"]
    /\ UNCHANGED <<maskVars, registryVars, handlerVars>>

\* one /analyze request, from its body to its response
Analyze ==
    /\ analysis.pc # "boot"
    /\ \E body \in Bodies, run \in ModelRuns :
        analysis' =
            [pc |-> "responded", body |-> body,
             called |-> body.json /\ RequestedUrl(body) # <<>>,
             result |-> IF body.json /\ RequestedUrl(body) # <<>>
                        THEN ClassifyUrl(WithScheme(RequestedUrl(body)), run)
                        ELSE NotCalled,
             response |-> AnalyzeResponse(body, run)]
    /\ UNCHANGED <<vectorizer, ml_model, maskVars, registryVars, handlerVars>>

InitClassify ==
    /\ ClassifierOff /\ MaskOff
    /\ server = "unified_pii_server"
    /\ RegistryUnset /\ HandlersIdle

NextClassify == LoadModels \/ Analyze

SpecClassify == InitClassify /\ [][NextClassify]_vars

(***************************************************************************)
(* Specifications.                                                         *)
(***************************************************************************)
InitMask ==
    /\ \E impl \in Impls : \E ty \in CallTypes(impl) :
        mk = [MaskIdle EXCEPT !.impl = impl, !.model_type = ty, !.pc = "call"]
    /\ ref = RefIdle
    /\ server = "unified_pii_server"
    /\ RegistryUnset /\ HandlersIdle /\ ClassifierOff

NextMask == MaskDetect \/ MaskDetectRaises \/ MaskBox \/ MaskReturn

SpecMask == InitMask /\ [][NextMask]_vars

\* the registry when serving starts: document_masking_server and
\* pan_masking_server call load_model() once in __main__ (it may fail);
\* unified_pii_server loads no detector at start-up
RegistryAtStart ==
    \E loaded \in BOOLEAN :
        /\ loaded => server # "unified_pii_server"
        /\ aadhar_model = IF loaded /\ server = "document_masking_server"
                          THEN [type |-> "aadhar", serial |-> 1] ELSE Unset
        /\ pan_model = IF loaded /\ server = "pan_masking_server"
                       THEN [type |-> "pan", serial |-> 1] ELSE Unset
        /\ constructions = [d \in DocTypes |->
                IF loaded /\ d \in TypesOf(server) THEN 1 ELSE 0]

Init ==
    /\ server \in Impls
    /\ RegistryAtStart /\ HandlersIdle /\ ClassifierOff /\ MaskOff

Handler(t, reqs, outs) ==
    \/ Receive(t, reqs)
    \/ Extract(t)
    \/ LoadCached(t)
    \/ LoadUnset(t)
    \/ Construct(t)
    \/ ConstructRaises(t)
    \/ InferAndMask(t, outs)
    \/ InferRaises(t)
    \/ Output(t)
    \/ Return(t)

\* one worker: requests are served one after another
NextSeq == Handler(1, Requests, DetectorOutputs)

SpecSeq == Init /\ [][NextSeq]_vars

\* one worker on a host where writing the result may fail; the detector
\* finds nothing
NextFaults == Handler(1, Requests, {<<>>}) \/ OutputRaises(1)

SpecFaults == Init /\ [][NextFaults]_vars

\* NThreads workers of a threaded server; the detector finds nothing
Next == \E t \in Threads : Handler(t, PagedRequests, {<<>>})

Spec == Init /\ [][Next]_vars

(***************************************************************************)
(* Properties.                                                             *)
(***************************************************************************)

\* C1 (Spec): single-flight initialization.  For every document type the
\* model construction routine has run at most once, and two workers that
\* hold a handle of the same type hold the same one.
SingleFlight ==
    /\ \A d \in DocTypes : constructions[d] <= 1
    /\ \A t1, t2 \in Threads :
        (model[t1] # Unset /\ model[t2] # Unset /\ model[t1].type = model[t2].type)
            => model[t1] = model[t2]

\* C2 (SpecSeq): memoization.  Once a handle is set, no step changes it,
\* resets it or constructs a model of that type again, and a load call made
\* while it is set returns that handle.
Memoized ==
    [][/\ aadhar_model # Unset =>
            (aadhar_model' = aadhar_model
             /\ constructions'["aadhar"] = constructions["aadhar"])
       /\ pan_model # Unset =>
            (pan_model' = pan_model /\ constructions'["pan"] = constructions["pan"])
       /\ \A t \in Threads :
            (pc[t] = "load" /\ GetModel(req[t].doctype) # Unset /\ pc'[t] # "load")
                => (pc'[t] = "infer" /\ model'[t] = GetModel(req[t].doctype))]_vars

\* C2 witness: the second page of a request is served from the handle that
\* the first page's load call constructed.
MemoizedWitness ==
    /\ pc[1] = "infer" /\ idx[1] = 1
    /\ outcome[1].tags = <<"masked">>
    /\ model[1] = GetModel(req[1].doctype)
    /\ constructions[req[1].doctype] = 1

\* the pages of a request on which the detector could not be loaded
LoadFailedPages(t) ==
    {i \in 1 .. Len(outcome[t].tags) : outcome[t].tags[i] = "load_failed"}

\* C3 (SpecSeq): degrade-to-unmasked.  A page whose detector load failed is
\* handed on unchanged, and a request whose detector could not be loaded on
\* any page is answered with success, 0 detections and the input pages.
DegradeToUnmasked ==
    \A t \in Threads :
        /\ \A i \in LoadFailedPages(t) :
            i <= Len(masked_images[t]) /\ masked_images[t][i] = images[t][i]
        /\ (pc[t] = "responded" /\ LoadFailedPages(t) # {}
                /\ LoadFailedPages(t) = 1 .. Len(images[t]))
            => /\ response[t].success /\ response[t].status = 200
               /\ response[t].detections = 0
               /\ artifact[t] = images[t]

\* C3 witness: a two-page PDF answered after both loads failed.
DegradeWitness ==
    /\ pc[1] = "responded" /\ req[1].upload = "pdf"
    /\ outcome[1].tags = <<"load_failed", "load_failed">>
    /\ response[1].success /\ artifact[1] = images[1]

\* C4 (SpecSeq): count correctness.  The count a successful request reports
\* is the number of detector boxes, over all pages, whose area is positive
\* after clipping to the page.
CountCorrect ==
    \A t \in Threads :
        (pc[t] = "responded" /\ response[t].success)
            => response[t].detections = outcome[t].expected

\* C5 (SpecMask): bounds invariant.  The rectangle with which the working
\* copy is sliced lies inside the page and has a positive width and height.
BoundsInvariant ==
    mk.st.sliced =>
        /\ 0 <= mk.st.rect.x1 /\ mk.st.rect.x1 < mk.st.rect.x2
        /\ mk.st.rect.x2 <= mk.img.w
        /\ 0 <= mk.st.rect.y1 /\ mk.st.rect.y1 < mk.st.rect.y2
        /\ mk.st.rect.y2 <= mk.img.h

\* C6 (SpecMask): masking frame.  A pixel outside the post-clip region of
\* every box processed so far has its input value, in the working copy and
\* in the returned page.
MaskingFrame ==
    \A p \in PixelsOf(mk.img.w, mk.img.h) :
        p \notin ref.clip =>
            /\ mk.st.img.px[p] = mk.img.px[p]
            /\ mk.pc = "ret" => mk.result.img.px[p] = mk.img.px[p]

\* C7 (SpecMask): empty detection set.  When the detector returns no boxes
\* the function returns the input page, pixel for pixel, and a count of 0.
EmptyDetection ==
    (mk.pc = "ret" /\ ~mk.raised /\ mk.n = 0)
        => (mk.result.img = mk.img /\ mk.result.count = 0)

\* C7 witness: a call that returned after the detector found no boxes.
EmptyDetectionWitness ==
    /\ mk.pc = "ret" /\ ~mk.raised /\ mk.n = 0
    /\ mk.impl = "document_masking_server"
    /\ mk.result.img = mk.img

\* C8 (SpecSeq): page-order preservation.  When the loop over the pages of a
\* PDF is over, masked_images has one entry per input page and entry i comes
\* from input page i; the PDF written holds them in that order.
PageOrder ==
    \A t \in Threads :
        (pc[t] \in {"output", "responded"} /\ req[t].upload = "pdf" /\ req[t].pages >= 0)
            => /\ Len(masked_images[t]) = Len(images[t])
               /\ \A i \in 1 .. Len(images[t]) : masked_images[t][i].id = images[t][i].id
               /\ pc[t] = "responded" =>
                    /\ Len(artifact[t]) = Len(images[t])
                    /\ \A i \in 1 .. Len(images[t]) : artifact[t][i] = masked_images[t][i]

\* C8 witness: a two-page PDF written with page 1 fallen back to the
\* original and page 2 blurred.
PageOrderWitness ==
    /\ pc[1] = "responded" /\ req[1].upload = "pdf" /\ response[1].success
    /\ outcome[1].tags = <<"infer_failed", "masked">>
    /\ Len(artifact[1]) = 2
    /\ artifact[1][1] = images[1][1]
    /\ artifact[1][2].id = 2 /\ artifact[1][2] # images[1][2]

\* C9 (SpecSeq): no partial results.  A request that is answered with
\* success either ran detection and masking on every page, or returns every
\* page unmodified with 0 detections.
NoPartialResults ==
    \A t \in Threads :
        (pc[t] = "responded" /\ response[t].success)
            => \/ \A i \in 1 .. Len(outcome[t].tags) : outcome[t].tags[i] = "masked"
               \/ /\ response[t].detections = 0
                  /\ \A i \in 1 .. Len(images[t]) : masked_images[t][i] = images[t][i]

\* C10 (SpecClassify): fail-closed classifier default.  While the model or
\* the vectorizer is unset, classify_url returns isUnsafe = true,
\* isGovernment = false and confidence 0, and the response of /analyze to a
\* non-empty url carries isUnsafe = true.
FailClosed ==
    (analysis.pc = "responded" /\ analysis.called
        /\ (ml_model = None \/ vectorizer = None))
        => /\ analysis.result.isUnsafe
           /\ ~analysis.result.isGovernment
           /\ analysis.result.confidence = 0
           /\ analysis.response.body.isUnsafe

\* C10 witness: /analyze answered a request for a url while only the
\* vectorizer was loaded.
FailClosedWitness ==
    /\ analysis.pc = "responded" /\ analysis.called
    /\ vectorizer = Loaded /\ ml_model = None
    /\ analysis.body.url = <<"b.com">>
    /\ analysis.response.status = 500
    /\ analysis.response.body.isUnsafe

\* C11 (SpecClassify): in every record classify_url returns (model unset,
\* prediction, exception) isUnsafe is the negation of isGovernment.
UnsafeIsNotGovernment ==
    (analysis.pc = "responded" /\ analysis.called)
        => (analysis.result.isUnsafe <=> ~analysis.result.isGovernment)

\* C11 witness: the loaded model predicted a label that counts as government
\* and classify_url returned a record that is government and not unsafe.
UnsafeIsNotGovernmentWitness ==
    /\ analysis.pc = "responded" /\ analysis.called
    /\ ml_model = Loaded /\ vectorizer = Loaded
    /\ "classification" \in DOMAIN analysis.result
    /\ analysis.result.classification = <<"G", "O", "V">>
    /\ analysis.result.confidence = 60
    /\ analysis.result.isGovernment /\ ~analysis.result.isUnsafe

\* C12 (SpecMask): invalid document type.  A masking call whose document
\* type is not aadhar or pan calls no load function, never enters the masking
\* loop and never returns a (page, count) result, which is the only answer
\* the function gives its caller.
InvalidTypeRejected ==
    mk.model_type \notin (DocTypes \cup {None})
        => (mk.loader = None /\ mk.pc \notin {"loop", "ret"})

\* C13 (SpecSeq): unreadable document.  A request whose upload yields no valid
\* page (an image that does not decode, a PDF that does not open or has no
\* page) is answered with an error, not with success, and writes no output
\* file.
UnreadableRejected ==
    \A t \in Threads :
        (pc[t] = "responded" /\ req[t].upload \in Accepted /\ images[t] = <<>>)
            => /\ ~response[t].success
               /\ response[t].status \in {400, 500}
               /\ artifact[t] = NoFile

\* C14 (SpecSeq): invalid input.  A request with no file part, an empty
\* filename or an extension that is not allowed is answered 400 in its first
\* step, and that step saves no upload, loads and invokes no detector and
\* writes no result file.
InvalidInputNoEffect ==
    [][\A t \in Threads :
        (pc[t] = "idle" /\ pc'[t] # "idle" /\ req'[t].upload \in Rejected)
            => /\ pc'[t] = "responded"
               /\ response'[t].status = 400 /\ ~response'[t].success
               /\ uploads' = uploads
               /\ aadhar_model' = aadhar_model /\ pan_model' = pan_model
               /\ constructions' = constructions
               /\ model'[t] = Unset /\ outcome'[t] = NoOutcome
               /\ images'[t] = <<>> /\ masked_images'[t] = <<>>
               /\ artifact'[t] = NoFile]_vars

\* C14 witness: an upload with an extension that is not allowed was answered
\* 400 by a server whose upload folder holds only the image an earlier
\* request left there and whose detector is not loaded.
InvalidInputWitness ==
    /\ pc[1] = "responded" /\ req[1].upload = "badext"
    /\ response[1].status = 400
    /\ uploads = [NoUploads EXCEPT !["image"] = [owner |-> 1, pages |-> -1]]
    /\ artifact[1] = NoFile
    /\ GetModel(req[1].doctype) = Unset /\ constructions[req[1].doctype] = 0

\* C15 (SpecSeq): type-to-model mapping.  The handle a request invokes is of
\* the request's document type, and a step of a request of one type leaves
\* the other type's global handle as it is and constructs no model of the
\* other type.
TypeToModel ==
    [][\A t \in Threads :
        (pc'[t] # pc[t] /\ req'[t].doctype \in DocTypes)
            => /\ (pc'[t] = "infer" =>
                    (model'[t] # Unset /\ model'[t].type = req'[t].doctype))
               /\ req'[t].doctype = "aadhar" =>
                    (pan_model' = pan_model
                     /\ constructions'["pan"] = constructions["pan"])
               /\ req'[t].doctype = "pan" =>
                    (aadhar_model' = aadhar_model
                     /\ constructions'["aadhar"] = constructions["aadhar"])]_vars

\* C15 witness: unified_pii_server is about to invoke the aadhar detector
\* for an aadhar request while the pan handle, set by an earlier request, is
\* still the one that request constructed.
TypeToModelWitness ==
    /\ server = "unified_pii_server"
    /\ pc[1] = "infer" /\ req[1].doctype = "aadhar"
    /\ model[1] = [type |-> "aadhar", serial |-> 1] /\ aadhar_model = model[1]
    /\ pan_model = [type |-> "pan", serial |-> 1]

\* C16 (SpecMask): overlapping boxes.  When the detector returned two boxes
\* [A, B] that lie on the page, B inside A, the function counts both, the
\* pixels of B have been blurred twice (the second blur computed from the
\* pixels the first left), the other pixels of A once, and the rest not at
\* all.
OverlapBlurredTwice ==
    (mk.pc = "ret" /\ mk.n = 2 /\ Len(ref.rects) = 2
        /\ InPage(mk.img, ref.rects[1]) /\ InPage(mk.img, ref.rects[2])
        /\ Inside(ref.rects[2], ref.rects[1]))
        => /\ mk.result.count = 2
           /\ \A p \in PixelsOf(mk.img.w, mk.img.h) :
                mk.result.img.px[p] =
                    IF p \in RectPixels(mk.img, ref.rects[2]) THEN 2
                    ELSE IF p \in RectPixels(mk.img, ref.rects[1]) THEN 1
                    ELSE 0

\* C16 witness: unified_pii_server's function returned after the boxes
\* [whole page, left column]: the left column is blurred twice, the right
\* one once, and the count is 2.
OverlapWitness ==
    /\ mk.pc = "ret" /\ mk.impl = "unified_pii_server" /\ mk.n = 2
    /\ ref.rects = <<[x1 |-> 0, y1 |-> 0, x2 |-> PageW, y2 |-> PageH],
                     [x1 |-> 0, y1 |-> 0, x2 |-> 1, y2 |-> PageH]>>
    /\ mk.result.count = 2
    /\ mk.result.img.px[<<0, 0>>] = 2
    /\ mk.result.img.px[<<PageW - 1, 0>>] = 1

\* the detector failed (load or inference) on a page of the request of t
DetectorFailed(t) ==
    \E i \in 1 .. Len(outcome[t].tags) :
        outcome[t].tags[i] \in {"load_failed", "infer_failed"}

\* C17 (SpecSeq): no per-page retry.  Once the detector has failed on a page
\* of a request, the request neither runs the model construction again nor
\* invokes the detector for its remaining pages.
NoPerPageRetry ==
    \A t \in Threads : DetectorFailed(t) => pc[t] \notin {"construct", "infer"}

RequestIsolation ==
    \A t \in Threads :
        /\ pc[t] \in {"extract", "load", "construct", "infer", "output"}
            => uploads[req[t].upload] = [owner |-> t, pages |-> req[t].pages]
        /\ outcome[t].read \in {0, t}
        /\ (pc[t] = "responded" /\ response[t].success) => outcome[t].read = t

\* C20 (SpecSeq): a failed construction leaves the handle unset.  A handle
\* that is set is one that YOLO(path) returned for its type; a load call in
\* which the construction raised leaves the global unset, builds nothing and
\* hands the exception to its caller; and a load call that finds the global
\* unset goes to the construction again.
UnsetAfterFailedLoad ==
    [][/\ \A d \in DocTypes :
            GetModel(d) # Unset =>
                (GetModel(d).type = d /\ GetModel(d).serial \in 1 .. constructions[d])
       /\ \A t \in Threads :
            /\ (pc[t] = "construct" /\ pc'[t] \notin {"construct", "infer"})
                => /\ (IF req[t].doctype = "aadhar" THEN aadhar_model'
                                                     ELSE pan_model') = Unset
                   /\ constructions' = constructions
                   /\ outcome'[t].tags = Append(outcome[t].tags, "load_failed")
            /\ (pc[t] = "load" /\ pc'[t] # "load" /\ GetModel(req[t].doctype) = Unset)
                => pc'[t] = "construct"]_vars

\* C20 witness: the load call of page 2 is at the construction again, with
\* the handle still unset, after the construction raised on page 1.
UnsetAfterFailedLoadWitness ==
    /\ pc[1] = "construct" /\ idx[1] = 1
    /\ outcome[1].tags = <<"load_failed">>
    /\ GetModel(req[1].doctype) = Unset
    /\ constructions[req[1].doctype] = 0

\* C21 (SpecMask): per-page atomicity of masking.  The image given to the
\* masking function is never modified, and what the function returns is
\* either a copy in which exactly the regions of the surviving boxes are
\* blurred, with the number of those boxes, or, when an exception was raised
\* at any point, the input image and 0; a page with blurred pixels is never
\* returned with a count of 0.
PageAtomicity ==
    /\ mk.img.px = [p \in PixelsOf(mk.img.w, mk.img.h) |-> 0]
    /\ mk.pc = "ret" =>
        /\ IF mk.raised
           THEN mk.result = [img |-> mk.img, count |-> 0]
           ELSE /\ mk.result.count = ref.count
                /\ \A p \in PixelsOf(mk.img.w, mk.img.h) :
                        mk.result.img.px[p] > 0 <=> p \in ref.clip
        /\ mk.result.count = 0 => mk.result.img = mk.img

====
